---- MODULE Spec2Model ----
(***************************************************************************)
(* Model of the vso-agent worker process (src/src/agent/vsoworker.ts) and  *)
(* of its task bundle cache (src/src/agent/taskmanager.ts).                *)
(*                                                                         *)
(* Spec      : one worker process handling one message with run().         *)
(* FairSpec  : Spec plus the fairness of the promise library's ticks.      *)
(* SpecTasks : a TaskManager serving ensureTaskExists / ensureTasksExist   *)
(*             calls against the on-disk task folder.                      *)
(***************************************************************************)
EXTENDS Integers, Sequences, FiniteSets, TLC

VARIABLES
    \* ---- vsoworker.ts ----
    msg,            \* the message the process receives
    phase,          \* "idle" before run(msg), "handled" once run() has returned
    variables,      \* job.environment.variables
    env,            \* names set in process.env by run()
    authHandler,    \* systemAuthHandler
    finishingJob,   \* the guard flag of run()
    finishJob,      \* the promise chain hanging off ctx.finishJob(result)
    drain,          \* the promise chain hanging off serviceChannel.drain()
    deferred,       \* the deferred whose promise run() returns
    abandons,       \* JobAbandoned events emitted so far
    callbacks,      \* invocations of the jobRunner.run callback so far
    events,         \* everything run() and its callbacks did, in order
    exited,         \* process.exit() was called
    \* ---- taskmanager.ts ----
    dir,            \* state of <taskFolder>/<name>/<version>
    zip,            \* state of <taskFolder>/<name>/<version>.zip
    ops,            \* the ensureTaskExists calls made so far
    batches,        \* the task lists passed to ensureTasksExist so far
    all,            \* the Q.all promise of each ensureTasksExist call
    catalog,        \* the task definitions the server lists
    latest          \* the ensureLatestExist call

workerVars == <<msg, phase, variables, env, authHandler, finishingJob,
                finishJob, drain, deferred, abandons, callbacks, events, exited>>
taskVars == <<dir, zip, ops, batches, all, catalog, latest>>
vars == <<msg, phase, variables, env, authHandler, finishingJob,
          finishJob, drain, deferred, abandons, callbacks, events, exited,
          dir, zip, ops, batches, all, catalog, latest>>

(***************************************************************************)
(* Bounds                                                                  *)
(***************************************************************************)
\* JobAbandoned events the feedback channel may emit for one job
MaxAbandons == 2
\* times the job engine may invoke the completion callback
MaxCallbacks == 1

(***************************************************************************)
(* Promises (Q): a deferred settles once; later resolve/reject are no-ops. *)
(***************************************************************************)
Settled == {"fulfilled", "rejected"}

\* faulty variant: a later resolve overrides the rejection already recorded
QResolveOverrides(d) ==
    [d EXCEPT !.state = "fulfilled", !.resolveCalls = d.resolveCalls + 1]

QResolve(d) ==
    [d EXCEPT !.state = IF d.state = "pending" THEN "fulfilled" ELSE d.state,
              !.resolveCalls = d.resolveCalls + 1]

QReject(d) ==
    [d EXCEPT !.state = IF d.state = "pending" THEN "rejected" ELSE d.state,
              !.rejectCalls = d.rejectCalls + 1]

NewDeferred == [state |-> "pending", resolveCalls |-> 0, rejectCalls |-> 0]

\* a promise returned by a collaborator, and how far the handlers chained on
\* it have run (stage counts the chained callbacks already past)
\* reason is the value a rejection carries: truthy or not, and its .message
NoReason == [truthy |-> FALSE, message |-> "undefined"]
NoPromise == [state |-> "none", stage |-> 0, reason |-> NoReason]
PendingPromise == [state |-> "pending", stage |-> 0, reason |-> NoReason]

\* ensureLatestExist before it is called
NotCalled ==
    [pc |-> "idle", promise |-> NewDeferred, reason |-> "", err |-> FALSE, batch |-> 0]

(***************************************************************************)
(* Messages                                                                *)
(***************************************************************************)
Undefined == <<>>

EndpointLists == {<<"u1">>, <<"u2", "u1">>}

\* messages whose job carries every identity variable and no workspace
\* variable yet
Messages ==
    [messageType : {"job", "other"},
     systemConnection : BOOLEAN,
     creds : BOOLEAN,
     collectionUri : BOOLEAN,
     endpoints : EndpointLists,
     system : {<<"build">>},
     collectionId : {<<"c1">>},
     definitionId : {<<"d1">>},
     preset : {FALSE}]

Ev(op, arg) == [op |-> op, arg |-> arg]

Count(op) == Cardinality({i \in 1..Len(events) : events[i].op = op})

\* serviceChannel.on(JobAbandoned, ...) has run: the channel can deliver the event
HandlerRegistered == Count("on") > 0
\* createFeedbackChannel(...) has returned the channel that emits JobAbandoned
ChannelCreated == Count("createFeedbackChannel") > 0

\* jobRunner.run(callback) has run: the engine can call back
EngineStarted == Count("jobRunner.run") > 0

\* faulty variant: an endpoint URL already in the hash input is left out
RECURSIVE HashInputDedup(_, _)
HashInputDedup(acc, endpoints) ==
    IF endpoints = <<>> THEN acc
    ELSE IF \E i \in 1..Len(acc) : acc[i] = Head(endpoints)
         THEN HashInputDedup(acc, Tail(endpoints))
         ELSE HashInputDedup(acc \o <<":", Head(endpoints)>>, Tail(endpoints))

(***************************************************************************)
(* setVariables                                                            *)
(***************************************************************************)
RECURSIVE HashInput(_, _)
HashInput(acc, endpoints) ==
    IF endpoints = <<>> THEN acc
    ELSE HashInput(acc \o <<":", Head(endpoints)>>, Tail(endpoints))

\* sha256 hex digest, modelled as an injective function of its input
Sha256(input) == <<"sha256(">> \o input \o <<")">>

\* job.environment.variables as the message carries it; preset: it already
\* holds workspace variables
InitialVariables(m) ==
    [system |-> m.system,
     collectionId |-> m.collectionId,
     definitionId |-> m.definitionId,
     collectionUri |-> IF m.collectionUri THEN <<"http://coll">> ELSE Undefined,
     workingDirectory |-> IF m.preset THEN <<"old">> ELSE Undefined,
     buildDirectory |-> IF m.preset THEN <<"old", "build">> ELSE Undefined,
     stagingDirectory |-> IF m.preset THEN <<"old", "staging">> ELSE Undefined]

\* a value in a string concatenation: an absent one reads 'undefined'
JsString(x) == IF x = Undefined THEN <<"undefined">> ELSE x

\* path.join(workingFolder, sys, hash) throws a TypeError when sys is no string
setVariablesThrows(v) == v.system = Undefined

\* cm.getWorkPath(config)
WorkingFolder == <<"work">>

\* the hash input: collId + ':' + defId, then ':' + url for each endpoint
hashInputOf(v, m) ==
    HashInput(JsString(v.collectionId) \o <<":">> \o JsString(v.definitionId),
              m.endpoints)

\* the variables after setVariables(job, config); when path.join throws,
\* only collectionUri has been written
setVariables(v, m) ==
    LET uri == IF v.collectionUri = Undefined
               THEN (IF m.systemConnection THEN <<"http://sys">> ELSE <<"http://auth">>)
               ELSE v.collectionUri
        buildDirectory == WorkingFolder \o v.system \o Sha256(hashInputOf(v, m))
    IN  IF setVariablesThrows(v)
        THEN [v EXCEPT !.collectionUri = uri]
        ELSE [v EXCEPT !.collectionUri = uri,
                       !.workingDirectory = WorkingFolder,
                       !.buildDirectory = buildDirectory,
                       !.stagingDirectory = buildDirectory \o <<"staging">>]

(***************************************************************************)
(* run(): the synchronous part                                             *)
(***************************************************************************)
\* faulty variant: every message is handled as a job
IsJobAlways(m) == TRUE

IsJob(m) == m.messageType = "job"

AuthEvents(m) ==
    IF m.systemConnection
    THEN <<Ev("bearerHandler", "AccessToken")>>
    ELSE <<Ev("error", "system connection token not supplied")>>

CredEvents(m) ==
    IF m.creds THEN <<Ev("setenv", "altusername"), Ev("setenv", "altpassword")>>
    ELSE <<>>

\* faulty variant: a job without a system connection is given up after the error
RunJobEventsAbort(m) ==
    IF m.systemConnection
    THEN <<Ev("deserializeEnumValues", ""), Ev("setVariables", "")>>
         \o AuthEvents(m) \o CredEvents(m)
         \o <<Ev("status", "Running job"),
              Ev("createFeedbackChannel", "bearer"),
              Ev("on", "JobAbandoned"),
              Ev("jobRunner.run", "bearer")>>
    ELSE <<Ev("deserializeEnumValues", ""), Ev("setVariables", "")>>
         \o AuthEvents(m)

\* faulty variant: the engine is started before the variables are set and
\* before the JobAbandoned handler is registered
RunJobEventsEngineFirst(m) ==
    <<Ev("deserializeEnumValues", "")>>
    \o AuthEvents(m)
    \o CredEvents(m)
    \o <<Ev("status", "Running job"),
         Ev("createFeedbackChannel", IF m.systemConnection THEN "bearer" ELSE "undefined"),
         Ev("jobRunner.run", IF m.systemConnection THEN "bearer" ELSE "undefined"),
         Ev("setVariables", ""),
         Ev("on", "JobAbandoned")>>

\* faulty variant: no JobAbandoned handler is registered on the channel
RunJobEventsNoHandler(m) ==
    <<Ev("deserializeEnumValues", ""), Ev("setVariables", "")>>
    \o AuthEvents(m)
    \o CredEvents(m)
    \o <<Ev("status", "Running job"),
         Ev("createFeedbackChannel", IF m.systemConnection THEN "bearer" ELSE "undefined"),
         Ev("jobRunner.run", IF m.systemConnection THEN "bearer" ELSE "undefined")>>

RunJobEvents(m) ==
    <<Ev("deserializeEnumValues", ""), Ev("setVariables", "")>>
    \o AuthEvents(m)
    \o CredEvents(m)
    \o <<Ev("status", "Running job"),
         Ev("createFeedbackChannel", IF m.systemConnection THEN "bearer" ELSE "undefined"),
         Ev("on", "JobAbandoned"),
         Ev("jobRunner.run", IF m.systemConnection THEN "bearer" ELSE "undefined")>>

RunJob ==
    /\ variables' = setVariables(variables, msg)
    /\ authHandler' = IF msg.systemConnection THEN "bearer" ELSE "undefined"
    /\ env' = IF msg.creds THEN {"altusername", "altpassword"} ELSE {}
    /\ events' = events \o RunJobEvents(msg)
    /\ UNCHANGED <<deferred, exited>>

\* run() on a job whose setVariables throws: the exception leaves run() and
\* the uncaughtException handler logs it and calls process.exit()
RunJobThrows ==
    /\ variables' = setVariables(variables, msg)
    /\ events' = events \o <<Ev("deserializeEnumValues", ""),
                             Ev("uncaughtException", "TypeError"),
                             Ev("error", "worker unhandled"),
                             Ev("error", "stack")>>
    /\ exited' = TRUE
    /\ UNCHANGED <<deferred, authHandler, env>>

RunOther ==
    /\ deferred' = QResolve(deferred)
    /\ events' = Append(events, Ev("resolve", ""))
    /\ UNCHANGED <<variables, authHandler, env, exited>>

\* process.on('message'): run(msg, ...)
OnMessage ==
    /\ ~exited
    /\ phase = "idle"
    /\ phase' = "handled"
    /\ IF IsJob(msg)
       THEN (IF setVariablesThrows(variables) THEN RunJobThrows ELSE RunJob)
       ELSE RunOther
    /\ UNCHANGED <<msg, finishingJob, finishJob, drain, abandons, callbacks>>
    /\ UNCHANGED taskVars

(***************************************************************************)
(* The two finalize triggers                                               *)
(***************************************************************************)
\* faulty variant: the abandonment handler finalizes without testing the flag
MayFinishUnguarded(flag) == TRUE

\* the guard of the JobAbandoned handler: the job is not being finished yet
MayFinish(flag) == ~flag

\* serviceChannel.on(JobAbandoned, ...): the handler
JobAbandoned ==
    /\ ChannelCreated
    /\ ~exited
    /\ abandons < MaxAbandons
    /\ abandons' = abandons + 1
    /\ IF ~HandlerRegistered
       THEN /\ events' = Append(events, Ev("unobserved", "JobAbandoned"))
            /\ UNCHANGED <<finishingJob, drain>>
       ELSE IF MayFinish(finishingJob)
       THEN /\ finishingJob' = TRUE
            /\ drain' = PendingPromise
            /\ events' = events \o <<Ev("JobAbandoned", ""),
                                     Ev("error", "Job abandoned by the server."),
                                     Ev("drain", "")>>
       ELSE /\ events' = Append(events, Ev("JobAbandoned", ""))
            /\ UNCHANGED <<finishingJob, drain>>
    /\ UNCHANGED <<msg, phase, variables, env, authHandler, finishJob,
                   deferred, callbacks, exited>>
    /\ UNCHANGED taskVars

NoError == "null"
EngineErrors == {NoError, "engine failed"}
TaskResults == {"Succeeded", "Failed"}

\* if (err) { serviceContext.error('Error: ' + err.message) }
ErrorEvents(err) == IF err # NoError THEN <<Ev("error", err)>> ELSE <<>>

\* faulty variant: the completion callback skips finalize when the engine failed
CallbackFinishesUnlessError(err, flag) == err = NoError /\ ~flag

\* faulty variant: the completion callback finalizes although the job was abandoned
CallbackFinishesUnguarded(err, flag) == TRUE

\* the guard of the completion callback: it does not look at err
CallbackFinishes(err, flag) == ~flag

\* the callback given to jobRunner.run, invoked with (err, result)
JobRunCallback(err, result) ==
    /\ EngineStarted
    /\ ~exited
    /\ callbacks < MaxCallbacks
    /\ callbacks' = callbacks + 1
    /\ IF CallbackFinishes(err, finishingJob)
       THEN /\ finishingJob' = TRUE
            /\ finishJob' = PendingPromise
            /\ events' = events \o <<Ev("callback", err), Ev("result", result),
                                     Ev("status", "Job Completed")>>
                                \o ErrorEvents(err)
                                \o <<Ev("finishJob", result)>>
       ELSE /\ events' = events \o <<Ev("callback", err), Ev("result", result),
                                     Ev("status", "Job Completed")>>
                                \o ErrorEvents(err)
            /\ UNCHANGED <<finishingJob, finishJob>>
    /\ UNCHANGED <<msg, phase, variables, env, authHandler, drain,
                   deferred, abandons, exited>>
    /\ UNCHANGED taskVars

EngineCompleted == \E err \in EngineErrors, result \in TaskResults : JobRunCallback(err, result)

(***************************************************************************)
(* The promise chains                                                      *)
(***************************************************************************)
\* the feedback channel settles the promise drain() returned
DrainSettles ==
    /\ ~exited
    /\ drain.state = "pending"
    /\ \E s \in Settled : drain' = [drain EXCEPT !.state = s]
    /\ UNCHANGED <<msg, phase, variables, env, authHandler, finishingJob,
                   finishJob, deferred, abandons, callbacks, events, exited>>
    /\ UNCHANGED taskVars

\* faulty variant: the callback is chained with .then, which skips it on rejection
FinRunsOnSuccess(p) == p.state = "fulfilled"

\* faulty variant: the callback runs as soon as the call is made, not when it settles
FinRunsEarly(p) == p.state # "none"

\* .fin(cb) runs cb however the promise settled
FinRuns(p) == p.state \in Settled

\* serviceChannel.drain().fin(() => { ...; deferred.resolve(null) })
DrainFin ==
    /\ ~exited
    /\ FinRuns(drain)
    /\ drain.stage = 0
    /\ drain' = [drain EXCEPT !.stage = 1]
    /\ deferred' = QResolve(deferred)
    /\ events' = Append(events, Ev("resolve", ""))
    /\ UNCHANGED <<msg, phase, variables, env, authHandler, finishingJob,
                   finishJob, abandons, callbacks, exited>>
    /\ UNCHANGED taskVars

\* what ctx.finishJob's promise may be rejected with: an Error, a truthy
\* value without .message, or nothing
RejectReasons ==
    {[truthy |-> TRUE, message |-> "finishJob failed"],
     [truthy |-> TRUE, message |-> "undefined"],
     NoReason}

\* the job context settles the promise finishJob(result) returned
FinishJobSettles ==
    /\ ~exited
    /\ finishJob.state = "pending"
    /\ \/ finishJob' = [finishJob EXCEPT !.state = "fulfilled"]
       \/ \E r \in RejectReasons :
              finishJob' = [finishJob EXCEPT !.state = "rejected", !.reason = r]
    /\ UNCHANGED <<msg, phase, variables, env, authHandler, finishingJob,
                   drain, deferred, abandons, callbacks, events, exited>>
    /\ UNCHANGED taskVars

\* ctx.finishJob(result).fin(() => { status('Job Finished') })
FinishJobFin ==
    /\ ~exited
    /\ FinRuns(finishJob)
    /\ finishJob.stage = 0
    /\ finishJob' = [finishJob EXCEPT !.stage = 1]
    /\ events' = Append(events, Ev("status", "Job Finished"))
    /\ UNCHANGED <<msg, phase, variables, env, authHandler, finishingJob,
                   drain, deferred, abandons, callbacks, exited>>
    /\ UNCHANGED taskVars

\* .fail((err) => { if (err) { error(err.message) } }): handles the
\* rejection, if any
FinishJobFail ==
    /\ ~exited
    /\ finishJob.stage = 1
    /\ IF finishJob.state = "rejected"
       THEN /\ finishJob' = [state |-> "fulfilled", stage |-> 2, reason |-> NoReason]
            /\ events' = IF finishJob.reason.truthy
                         THEN Append(events, Ev("error", finishJob.reason.message))
                         ELSE events
       ELSE /\ finishJob' = [finishJob EXCEPT !.stage = 2]
            /\ UNCHANGED events
    /\ UNCHANGED <<msg, phase, variables, env, authHandler, finishingJob,
                   drain, deferred, abandons, callbacks, exited>>
    /\ UNCHANGED taskVars

\* .fin(() => { deferred.resolve(null) })
FinishJobResolve ==
    /\ ~exited
    /\ FinRuns(finishJob)
    /\ finishJob.stage = 2
    /\ finishJob' = [finishJob EXCEPT !.stage = 3]
    /\ deferred' = QResolve(deferred)
    /\ events' = Append(events, Ev("resolve", ""))
    /\ UNCHANGED <<msg, phase, variables, env, authHandler, finishingJob,
                   drain, abandons, callbacks, exited>>
    /\ UNCHANGED taskVars

\* process.on('message'): run(...).fin(() => { process.exit() })
ProcessExit ==
    /\ ~exited
    /\ deferred.state \in Settled
    /\ exited' = TRUE
    /\ UNCHANGED <<msg, phase, variables, env, authHandler, finishingJob,
                   finishJob, drain, deferred, abandons, callbacks, events>>
    /\ UNCHANGED taskVars

\* process.on('SIGINT'): process.exit(), whatever run() is waiting for
SigInt ==
    /\ ~exited
    /\ exited' = TRUE
    /\ events' = Append(events, Ev("SIGINT", ""))
    /\ UNCHANGED <<msg, phase, variables, env, authHandler, finishingJob,
                   finishJob, drain, deferred, abandons, callbacks>>
    /\ UNCHANGED taskVars

(***************************************************************************)
(* The worker process                                                      *)
(***************************************************************************)
TaskIdle ==
    /\ dir = <<>>
    /\ zip = <<>>
    /\ ops = <<>>
    /\ batches = <<>>
    /\ all = <<>>
    /\ catalog = <<>>
    /\ latest = NotCalled

Init ==
    /\ msg \in Messages
    /\ phase = "idle"
    /\ variables = InitialVariables(msg)
    /\ env = {}
    /\ authHandler = "undefined"
    /\ finishingJob = FALSE
    /\ finishJob = NoPromise
    /\ drain = NoPromise
    /\ deferred = NewDeferred
    /\ abandons = 0
    /\ callbacks = 0
    /\ events = <<>>
    /\ exited = FALSE
    /\ TaskIdle

Next ==
    \/ OnMessage
    \/ JobAbandoned
    \/ EngineCompleted
    \/ DrainSettles
    \/ DrainFin
    \/ FinishJobSettles
    \/ FinishJobFin
    \/ FinishJobFail
    \/ FinishJobResolve
    \/ ProcessExit
    \/ SigInt

Spec == Init /\ [][Next]_vars

\* Q runs a settled promise's handlers on a later tick of the event loop, and
\* the runtime delivers every queued tick while the process lives
Ticks ==
    /\ WF_vars(DrainFin)
    /\ WF_vars(FinishJobFin)
    /\ WF_vars(FinishJobFail)
    /\ WF_vars(FinishJobResolve)

FairSpec == Spec /\ Ticks

(***************************************************************************)
(* run() on any job: the workspace variables                               *)
(***************************************************************************)
\* endpoints of a job
MaxEndpoints == 2

Urls == {"u1", "u2"}

\* messages whose job may lack identity variables, list any endpoints in
\* any order, and already hold workspace variables
AnyMessages ==
    [messageType : {"job", "other"},
     systemConnection : BOOLEAN,
     creds : {FALSE},
     collectionUri : BOOLEAN,
     endpoints : UNION {[1..n -> Urls] : n \in 0..MaxEndpoints},
     system : {<<"build">>, Undefined},
     collectionId : {<<"c1">>, <<"c2">>, Undefined},
     definitionId : {<<"d1">>, Undefined},
     preset : BOOLEAN]

InitVars ==
    /\ msg \in AnyMessages
    /\ phase = "idle"
    /\ variables = InitialVariables(msg)
    /\ env = {}
    /\ authHandler = "undefined"
    /\ finishingJob = FALSE
    /\ finishJob = NoPromise
    /\ drain = NoPromise
    /\ deferred = NewDeferred
    /\ abandons = 0
    /\ callbacks = 0
    /\ events = <<>>
    /\ exited = FALSE
    /\ TaskIdle

NextVars ==
    \/ OnMessage
    \/ SigInt

SpecVars == InitVars /\ [][NextVars]_vars

(***************************************************************************)
(* taskmanager.ts: the task folder                                         *)
(***************************************************************************)
\* ensureTaskExists calls (direct or through ensureTasksExist) in one run
MaxOps == 2
\* length of a task list passed to ensureTasksExist
MaxTasks == 2
\* ensureTasksExist calls in one run
MaxBatches == 1

\* version strings, as digit sequences: "9" and "10"
V9 == <<9>>
V10 == <<1, 0>>

\* the task instances callers ask for: one bundle in two versions, the same
\* id and version under a second name, and a second id under the same name
TaskInstances ==
    {[id |-> "A", name |-> "x", version |-> V9],
     [id |-> "A", name |-> "x", version |-> V10],
     [id |-> "A", name |-> "y", version |-> V9],
     [id |-> "B", name |-> "x", version |-> V9]}

TaskLists == UNION {[1..n -> TaskInstances] : n \in 0..MaxTasks}

\* a path under the task folder is <taskFolder>/<name>/<version>
getTaskPath(task) == <<task.name, task.version>>

Paths == {getTaskPath(task) : task \in TaskInstances}

Absent == [state |-> "absent", id |-> ""]
Empty == [state |-> "empty", id |-> ""]
Partial == [state |-> "partial", id |-> ""]
Complete(id) == [state |-> "complete", id |-> id]

\* fs.existsSync(this.getTaskPath(task))
hasTask(d, task) == d[getTaskPath(task)] # Absent

\* shell.mkdir('-p', taskPath)
Mkdir(d, p) == IF d[p] = Absent THEN [d EXCEPT ![p] = Empty] ELSE d

\* shell.rm('-rf', path)
Rm(d, p) == [d EXCEPT ![p] = Absent]

\* Q.resolve(null)
Resolved == [state |-> "fulfilled", resolveCalls |-> 0, rejectCalls |-> 0]

\* the call ensureTaskExists(task) when the bundle directory exists
CachedOp(task, b) ==
    [task |-> task, batch |-> b, download |-> FALSE, pc |-> "done",
     promise |-> Resolved, reason |-> "", dlErr |-> FALSE, exErr |-> FALSE]

\* the call downloadTask(task), up to the request it sends
DownloadOp(task, b) ==
    [task |-> task, batch |-> b, download |-> TRUE, pc |-> "downloading",
     promise |-> NewDeferred, reason |-> "", dlErr |-> FALSE, exErr |-> FALSE]

\* ensureTaskExists(task) on the disk and call log st, for batch b (0: none)
ensureTaskExists(st, task, b) ==
    IF hasTask(st.dir, task)
    THEN [dir |-> st.dir, ops |-> Append(st.ops, CachedOp(task, b))]
    ELSE [dir |-> Mkdir(st.dir, getTaskPath(task)),
          ops |-> Append(st.ops, DownloadOp(task, b))]

\* uniqueTasks as the loop over tasks builds it, keyed by id:version;
\* nothing reads it afterwards
RECURSIVE UniqueTasks(_, _)
UniqueTasks(tasks, seen) ==
    IF tasks = <<>> THEN <<>>
    ELSE LET t == Head(tasks)
             k == <<t.id, t.version>>
         IN  IF k \in seen THEN UniqueTasks(Tail(tasks), seen)
             ELSE <<t>> \o UniqueTasks(Tail(tasks), seen \cup {k})

\* the array ensureTasksExist maps over: tasks itself, not uniqueTasks
MappedTasks(tasks) == tasks

\* tasks.map(task => this.ensureTaskExists(task)), left to right
RECURSIVE MapEnsure(_, _, _)
MapEnsure(st, tasks, b) ==
    IF tasks = <<>> THEN st
    ELSE MapEnsure(ensureTaskExists(st, Head(tasks), b), Tail(tasks), b)

\* the promise Q.all(promises) returns, before any of promises is looked at
PendingAll == [state |-> "pending", first |-> 0]

\* the ensureTaskExists calls whose promises call b of ensureTasksExist collected
PromisesOf(b, os) == {i \in 1..Len(os) : os[i].batch = b}

\* faulty variant: Q.allSettled, which waits for every promise and never rejects
QAllSettled(a, b, os) ==
    IF a.state # "pending" THEN a
    ELSE IF \A i \in PromisesOf(b, os) : os[i].promise.state \in Settled
         THEN [state |-> "fulfilled", first |-> 0]
         ELSE a

\* return Q.all(promises): rejected with the first of promises to be rejected,
\* fulfilled when all of them are; a is the promise so far, os the calls now
QAll(a, b, os) ==
    IF a.state # "pending" THEN a
    ELSE IF \E i \in PromisesOf(b, os) : os[i].promise.state = "rejected"
         THEN [state |-> "rejected",
               first |-> CHOOSE i \in PromisesOf(b, os) : os[i].promise.state = "rejected"]
         ELSE IF \A i \in PromisesOf(b, os) : os[i].promise.state = "fulfilled"
              THEN [state |-> "fulfilled", first |-> 0]
              ELSE a

\* a caller invokes ensureTaskExists(task)
EnsureTaskExists(task) ==
    /\ Len(ops) < MaxOps
    /\ LET st == ensureTaskExists([dir |-> dir, ops |-> ops], task, 0)
       IN  dir' = st.dir /\ ops' = st.ops
    /\ UNCHANGED <<zip, batches, all, catalog, latest>>
    /\ UNCHANGED workerVars

\* a caller invokes ensureTasksExist(tasks)
EnsureTasksExist(tasks) ==
    /\ Len(batches) < MaxBatches
    /\ Len(ops) + Len(MappedTasks(tasks)) <= MaxOps
    /\ batches' = Append(batches, tasks)
    /\ LET st == MapEnsure([dir |-> dir, ops |-> ops], MappedTasks(tasks),
                           Len(batches) + 1)
       IN  /\ dir' = st.dir
           /\ ops' = st.ops
           /\ all' = Append(all, QAll(PendingAll, Len(batches) + 1, st.ops))
    /\ UNCHANGED <<zip, catalog, latest>>
    /\ UNCHANGED workerVars

\* what a download leaves at taskPath + '.zip'
DownloadResults(task, err) ==
    IF err THEN {Absent, Partial} ELSE {Complete(task.id)}

\* the callback of taskApi.downloadTask, for the call ops[i]
DownloadCallback(i, err) ==
    /\ ops[i].pc = "downloading"
    /\ \E z \in DownloadResults(ops[i].task, err) :
           zip' = [zip EXCEPT ![getTaskPath(ops[i].task)] = z]
    /\ ops' = [ops EXCEPT ![i].pc = "extracting",
                          ![i].dlErr = err,
                          ![i].promise = IF err THEN QReject(@) ELSE @,
                          ![i].reason = IF err THEN "download" ELSE @]
    /\ all' = [b \in DOMAIN all |-> QAll(all[b], b, ops')]
    /\ UNCHANGED <<dir, batches, catalog, latest>>
    /\ UNCHANGED workerVars

\* what cm.extractFile leaves in the directory when it reports no error
Extracted(z, d) ==
    IF z.state = "complete" THEN z
    ELSE IF z.state = "partial" THEN Partial
    ELSE d

\* faulty variant: the error branch of the extraction callback removes nothing
ExtractFailedKeep(d, p) == d

\* if (err) { shell.rm('-rf', taskPath); ... }
ExtractFailed(d, p) == Rm(d, p)

\* the callback of cm.extractFile, for the call ops[i]
ExtractCallback(i, err) ==
    /\ ops[i].pc = "extracting"
    /\ LET p == getTaskPath(ops[i].task)
           rejected == IF err THEN QReject(ops[i].promise) ELSE ops[i].promise
       IN  /\ dir' = IF err THEN ExtractFailed(dir, p)
                     ELSE [dir EXCEPT ![p] = Extracted(zip[p], @)]
           /\ zip' = Rm(zip, p)
           /\ ops' = [ops EXCEPT ![i].pc = "done",
                                 ![i].exErr = err,
                                 ![i].promise = QResolve(rejected),
                                 ![i].reason =
                                     IF err /\ ops[i].promise.state = "pending"
                                     THEN "extract" ELSE @]
    /\ all' = [b \in DOMAIN all |-> QAll(all[b], b, ops')]
    /\ UNCHANGED <<batches, catalog, latest>>
    /\ UNCHANGED workerVars

WorkerIdle ==
    /\ msg = [messageType |-> "other", systemConnection |-> FALSE, creds |-> FALSE,
              collectionUri |-> FALSE, endpoints |-> <<>>, system |-> <<"build">>,
              collectionId |-> <<"c1">>, definitionId |-> <<"d1">>, preset |-> FALSE]
    /\ phase = "idle"
    /\ variables = InitialVariables(msg)
    /\ env = {}
    /\ authHandler = "undefined"
    /\ finishingJob = FALSE
    /\ finishJob = NoPromise
    /\ drain = NoPromise
    /\ deferred = NewDeferred
    /\ abandons = 0
    /\ callbacks = 0
    /\ events = <<>>
    /\ exited = FALSE

\* the task folder holds the bundles earlier jobs left in it
InitTasks ==
    /\ WorkerIdle
    /\ dir \in [Paths -> {Absent, Complete("A")}]
    /\ zip = [p \in Paths |-> Absent]
    /\ ops = <<>>
    /\ batches = <<>>
    /\ all = <<>>
    /\ catalog = <<>>
    /\ latest = NotCalled

CallEnsureTaskExists == \E task \in TaskInstances : EnsureTaskExists(task)

CallEnsureTasksExist == \E tasks \in TaskLists : EnsureTasksExist(tasks)

Downloaded == \E i \in 1..Len(ops), err \in BOOLEAN : DownloadCallback(i, err)

ExtractDone == \E i \in 1..Len(ops), err \in BOOLEAN : ExtractCallback(i, err)

NextTasks ==
    \/ CallEnsureTaskExists
    \/ CallEnsureTasksExist
    \/ Downloaded
    \/ ExtractDone

SpecTasks == InitTasks /\ [][NextTasks]_vars

(***************************************************************************)
(* Repeated ensureTaskExists calls for one task                            *)
(***************************************************************************)
\* calls of ensureTaskExists for the task
MaxRepeats == 3

\* a caller invokes ensureTaskExists(task) for the task of the earlier calls
RepeatEnsureTaskExists ==
    \E task \in TaskInstances :
        /\ Len(ops) < MaxRepeats
        /\ \A i \in 1..Len(ops) : ops[i].task = task
        /\ LET st == ensureTaskExists([dir |-> dir, ops |-> ops], task, 0)
           IN  dir' = st.dir /\ ops' = st.ops
        /\ UNCHANGED <<zip, batches, all, catalog, latest>>
        /\ UNCHANGED workerVars

NextRepeat ==
    \/ RepeatEnsureTaskExists
    \/ Downloaded
    \/ ExtractDone

SpecRepeat == InitTasks /\ [][NextRepeat]_vars

(***************************************************************************)
(* taskmanager.ts: ensureLatestExist                                       *)
(***************************************************************************)
\* entries of the catalog the listing call returns
MaxCatalog == 3

\* the version string of a task definition: its version number in decimal
versionStringFromTaskDef(def) ==
    IF def.version < 10 THEN <<def.version>>
    ELSE <<def.version \div 10, def.version % 10>>

\* the task definitions of the server: task A in versions 9 and 10, task B
TaskDefinitions ==
    {[id |-> "A", name |-> "x", version |-> 9],
     [id |-> "A", name |-> "x", version |-> 10],
     [id |-> "B", name |-> "x", version |-> 9]}

Catalogs == UNION {[1..n -> TaskDefinitions] : n \in 0..MaxCatalog}

getTaskInstance(def) ==
    [id |-> def.id, name |-> def.name, version |-> versionStringFromTaskDef(def)]

\* a > b on two strings: by the first character that differs, a proper
\* prefix being the smaller
RECURSIVE StringGreater(_, _)
StringGreater(a, b) ==
    IF a = <<>> THEN FALSE
    ELSE IF b = <<>> THEN TRUE
    ELSE IF Head(a) # Head(b) THEN Head(a) > Head(b)
    ELSE StringGreater(Tail(a), Tail(b))

\* faulty variant: the older version replaces the newer one
IsOlder(version, kept) == StringGreater(kept, version)

\* cm.versionStringFromTaskDef(task) > latestTasks[latestIndex[task.id]].version
IsNewer(version, kept) == StringGreater(version, kept)

\* one turn of the loop over tasks; acc holds latestIndex and latestTasks
LatestStep(acc, def) ==
    IF def.id \notin DOMAIN acc.latestIndex
    THEN [latestIndex |-> [id \in DOMAIN acc.latestIndex \cup {def.id} |->
                              IF id = def.id THEN Len(acc.latestTasks) + 1
                              ELSE acc.latestIndex[id]],
          latestTasks |-> Append(acc.latestTasks, getTaskInstance(def))]
    ELSE IF IsNewer(versionStringFromTaskDef(def),
                    acc.latestTasks[acc.latestIndex[def.id]].version)
         THEN [acc EXCEPT !.latestTasks[acc.latestIndex[def.id]] = getTaskInstance(def)]
         ELSE acc

\* the loop over tasks
RECURSIVE LatestLoop(_, _)
LatestLoop(acc, tasks) ==
    IF tasks = <<>> THEN acc
    ELSE LatestLoop(LatestStep(acc, Head(tasks)), Tail(tasks))

LatestTasks(tasks) ==
    LatestLoop([latestIndex |-> <<>>, latestTasks |-> <<>>], tasks).latestTasks

\* a caller invokes ensureLatestExist(): the listing request is sent
CallEnsureLatestExist ==
    /\ latest.pc = "idle"
    /\ latest' = [latest EXCEPT !.pc = "listing"]
    /\ UNCHANGED <<dir, zip, ops, batches, all, catalog>>
    /\ UNCHANGED workerVars

\* if (err) { deferred.reject(err) }
ListingFailed(d, err) == IF err THEN QReject(d) ELSE d

\* the callback of taskApi.getTasks, invoked with (err, status, tasks); a
\* failed listing passes the catalog it got, or no list at all
GetTasksCallback(err, withList) ==
    /\ latest.pc = "listing"
    /\ err \/ withList
    /\ IF withList
       THEN LET b == Len(batches) + 1
                tasks == LatestTasks(catalog)
                st == MapEnsure([dir |-> dir, ops |-> ops], MappedTasks(tasks), b)
            IN  /\ batches' = Append(batches, tasks)
                /\ dir' = st.dir
                /\ ops' = st.ops
                /\ all' = Append(all, QAll(PendingAll, b, st.ops))
                /\ latest' = [latest EXCEPT !.pc = "ensuring",
                                            !.err = err,
                                            !.promise = ListingFailed(@, err),
                                            !.reason = IF err THEN "listing" ELSE @,
                                            !.batch = b]
       ELSE \* tasks.length throws a TypeError out of the callback
            /\ latest' = [latest EXCEPT !.pc = "thrown",
                                        !.err = err,
                                        !.promise = ListingFailed(@, err),
                                        !.reason = IF err THEN "listing" ELSE @]
            /\ UNCHANGED <<dir, ops, batches, all>>
    /\ UNCHANGED <<zip, catalog>>
    /\ UNCHANGED workerVars

\* this.ensureTasksExist(latestTasks).then(resolve, reject)
LatestThen ==
    /\ latest.pc = "ensuring"
    /\ all[latest.batch].state \in Settled
    /\ latest' = [latest EXCEPT
                      !.pc = "done",
                      !.promise = IF all[latest.batch].state = "fulfilled"
                                  THEN QResolve(@) ELSE QReject(@),
                      !.reason = IF latest.promise.state = "pending"
                                    /\ all[latest.batch].state = "rejected"
                                 THEN ops[all[latest.batch].first].reason ELSE @]
    /\ UNCHANGED <<dir, zip, ops, batches, all, catalog>>
    /\ UNCHANGED workerVars

\* the task folder is empty or holds bundles of earlier jobs; the server
\* has some catalog
InitLatest ==
    /\ WorkerIdle
    /\ dir \in [Paths -> {Absent, Complete("A")}]
    /\ zip = [p \in Paths |-> Absent]
    /\ ops = <<>>
    /\ batches = <<>>
    /\ all = <<>>
    /\ catalog \in Catalogs
    /\ latest = NotCalled

Listed == \E err \in BOOLEAN, withList \in BOOLEAN : GetTasksCallback(err, withList)

NextLatest ==
    \/ CallEnsureLatestExist
    \/ Listed
    \/ LatestThen
    \/ Downloaded
    \/ ExtractDone

SpecLatest == InitLatest /\ [][NextLatest]_vars

(***************************************************************************)
(* Properties of run()                                                     *)
(***************************************************************************)
Has(op) == \E i \in 1..Len(events) : events[i].op = op

First(op) == CHOOSE i \in 1..Len(events) :
                 events[i].op = op /\ \A j \in 1..(i - 1) : events[j].op # op

\* the finalize step of the winning path has run to its end
FinalizeSettled ==
    \/ Has("drain") /\ drain.state \in Settled
    \/ Has("finishJob") /\ finishJob.state \in Settled

\* the operator interrupted the worker
Interrupted == Has("SIGINT")

\* the first finalize trigger to reach the coordinator was JobAbandoned
AbandonedFirst ==
    /\ Has("JobAbandoned")
    /\ Has("callback") => First("JobAbandoned") < First("callback")

\* the first finalize trigger to reach the coordinator was the engine callback
CompletedFirst ==
    /\ Has("callback")
    /\ Has("JobAbandoned") => First("callback") < First("JobAbandoned")

\* C1: for a job message, whatever the order and number of engine callbacks
\* and JobAbandoned events, exactly one of ctx.finishJob / serviceChannel.drain
\* is called, once, as soon as a trigger has arrived; deferred.resolve is
\* called at most once, and exactly once when the finalize chain has run.
ExactlyOnceFinalize ==
    msg.messageType = "job" =>
        /\ Count("finishJob") + Count("drain") =
               (IF abandons + callbacks > 0 THEN 1 ELSE 0)
        /\ deferred.resolveCalls <= 1
        /\ deferred.resolveCalls = Count("resolve")
        /\ (drain.stage = 1 \/ finishJob.stage = 3) => deferred.resolveCalls = 1

\* both triggers arrived, the second while the first's finalize was pending
\* or later, and the signal was resolved
ExactlyOnceFinalizeWitness ==
    /\ msg.messageType = "job"
    /\ CompletedFirst
    /\ Has("JobAbandoned")
    /\ deferred.resolveCalls = 1
    /\ deferred.state = "fulfilled"
    /\ First("JobAbandoned") < First("resolve")

\* C2: for a job message the completion signal is resolved only when the
\* promise of the finalize call that was made (drain on abandonment,
\* finishJob on completion) has settled.
ResolvedOnlyAfterFinalize ==
    (msg.messageType = "job" /\ (deferred.state # "pending" \/ deferred.resolveCalls > 0))
        => FinalizeSettled

ResolvedOnlyAfterFinalizeWitness ==
    /\ msg.messageType = "job"
    /\ deferred.state = "fulfilled"
    /\ Has("drain")
    /\ drain.state = "rejected"

\* while the first trigger was JobAbandoned: drain was called once and
\* ctx.finishJob never
AbandonedFirstState ==
    AbandonedFirst => /\ Count("drain") = 1
                      /\ ~Has("finishJob")
                      /\ finishJob = NoPromise

\* a step in which the engine calls back after the job was abandoned
LateCallbackOnlyLogs ==
    (AbandonedFirst /\ callbacks' = callbacks + 1) =>
        /\ UNCHANGED <<finishingJob, finishJob, drain, deferred, variables, exited>>
        /\ \A i \in (Len(events) + 1)..Len(events') :
               events'[i].op \in {"callback", "result", "status", "error"}

\* C3: when JobAbandoned reaches the coordinator before the engine callback,
\* the channel is drained and ctx.finishJob is never called; an engine
\* callback arriving later, with or without an error, changes nothing but
\* the log; and once the drain has settled the completion signal is resolved,
\* as long as the worker is not interrupted by SIGINT.
AbandonedBeforeCompletion ==
    /\ []AbandonedFirstState
    /\ [][LateCallbackOnlyLogs]_vars
    /\ (AbandonedFirst /\ drain.state \in Settled)
           ~> (deferred.state = "fulfilled" \/ Interrupted)

\* the job was abandoned, the engine reported an error afterwards, and the
\* signal was resolved
AbandonedBeforeCompletionWitness ==
    /\ AbandonedFirst
    /\ \E i \in 1..Len(events) : events[i] = Ev("callback", "engine failed")
    /\ deferred.state = "fulfilled"

\* C4: once the promise of the finalize call has settled, fulfilled or
\* rejected with any reason, the completion signal is eventually resolved,
\* as long as the worker is not interrupted by SIGINT, and it is never
\* rejected.
FinalizeFailureStillCompletes ==
    /\ [](deferred.state # "rejected" /\ deferred.rejectCalls = 0)
    /\ (msg.messageType = "job" /\ FinalizeSettled)
           ~> (deferred.state = "fulfilled" \/ Interrupted)

\* finishJob was rejected after an engine error and the signal got resolved
FinalizeFailureStillCompletesWitness ==
    /\ \E i \in 1..Len(events) : events[i] = Ev("error", "finishJob failed")
    /\ \E i \in 1..Len(events) : events[i] = Ev("callback", "engine failed")
    /\ deferred.state = "fulfilled"

\* C5: an engine callback that reports an error before any abandonment was
\* handled logs the error and calls ctx.finishJob with the result the
\* engine passed; the completion signal is not rejected.
EngineErrorStillFinalizes ==
    \A i \in 1..Len(events) :
        (/\ events[i].op = "callback"
         /\ events[i].arg # NoError
         /\ \A j \in 1..(i - 1) : events[j].op \notin {"JobAbandoned", "callback"})
        => /\ \E k \in (i + 1)..Len(events) : events[k] = Ev("error", events[i].arg)
           /\ Count("finishJob") = 1
           /\ \E k \in (i + 1)..Len(events) :
                  events[k] = Ev("finishJob", events[i + 1].arg)
           /\ finishJob.state # "none"
           /\ deferred.state # "rejected"

EngineErrorStillFinalizesWitness ==
    /\ CompletedFirst
    /\ events[First("callback")].arg = "engine failed"
    /\ events[First("callback") + 1].arg = "Succeeded"
    /\ deferred.state = "fulfilled"

\* what run() and its callbacks logged
RunEvents == SelectSeq(events, LAMBDA e : e.op # "SIGINT")

\* C6: a message that is not a job resolves the completion signal in run()
\* itself and does nothing else: no variable is written, no channel is
\* created, no handler registered, no engine started, no finalize called.
NonJobIsNoOp ==
    (msg.messageType # "job" /\ phase = "handled") =>
        /\ deferred = [state |-> "fulfilled", resolveCalls |-> 1, rejectCalls |-> 0]
        /\ RunEvents = <<Ev("resolve", "")>>
        /\ variables = InitialVariables(msg)
        /\ env = {}
        /\ authHandler = "undefined"
        /\ ~HandlerRegistered /\ ~EngineStarted
        /\ finishJob = NoPromise /\ drain = NoPromise
        /\ ~finishingJob
        /\ abandons = 0 /\ callbacks = 0

NonJobIsNoOpWitness ==
    /\ msg.messageType # "job"
    /\ msg.systemConnection
    /\ phase = "handled"
    /\ exited
    /\ ~Interrupted

\* C7: a job message without a system connection gets a configuration error
\* logged, and is handled like any other job: the channel is created, the
\* handler registered and the engine started, with an undefined
\* authorization handler; the signal stays pending until a finalize settles.
MissingConnectionIsNotFatal ==
    (msg.messageType = "job" /\ ~msg.systemConnection /\ phase = "handled") =>
        /\ \E i \in 1..Len(events) :
               events[i] = Ev("error", "system connection token not supplied")
        /\ \E i \in 1..Len(events) : events[i] = Ev("createFeedbackChannel", "undefined")
        /\ \E i \in 1..Len(events) : events[i] = Ev("jobRunner.run", "undefined")
        /\ HandlerRegistered
        /\ authHandler = "undefined"
        /\ deferred.state = "rejected" => FALSE
        /\ deferred.state = "fulfilled" => FinalizeSettled

MissingConnectionIsNotFatalWitness ==
    /\ msg.messageType = "job"
    /\ ~msg.systemConnection
    /\ Has("finishJob")
    /\ deferred.state = "fulfilled"

(***************************************************************************)
(* Properties of the task manager                                          *)
(***************************************************************************)
\* the downloads ensureTasksExist call b issued for (id, version)
DownloadsOf(b, id, version) ==
    {i \in 1..Len(ops) : /\ ops[i].batch = b
                         /\ ops[i].download
                         /\ ops[i].task.id = id
                         /\ ops[i].task.version = version}

\* no download was started at the path of ops[i] after ops[i]
LastDownloadAtPath(i) ==
    \A j \in (i + 1)..Len(ops) :
        ops[j].download => getTaskPath(ops[j].task) # getTaskPath(ops[i].task)

\* C8: one call of ensureTasksExist issues at most one download for each
\* distinct (id, version) pair of its task list.
DedupDownload ==
    \A b \in 1..Len(batches) : \A task \in TaskInstances :
        Cardinality(DownloadsOf(b, task.id, task.version)) <= 1

\* C9: when the download of a missing bundle failed and the operation has
\* finished, the bundle directory and the archive are both absent, whatever
\* the extraction reported.
DownloadFailureLeavesNothing ==
    \A i \in 1..Len(ops) :
        (ops[i].download /\ ops[i].pc = "done" /\ ops[i].dlErr /\ LastDownloadAtPath(i))
        => /\ dir[getTaskPath(ops[i].task)] = Absent
           /\ zip[getTaskPath(ops[i].task)] = Absent

\* C10: when the download succeeded and the extraction failed, the promise
\* of ensureTaskExists is rejected with the extraction error although
\* resolve is called after it, and the bundle directory and the archive are
\* both absent when the operation has finished.
ExtractionFailureRollsBack ==
    \A i \in 1..Len(ops) :
        (ops[i].download /\ ops[i].pc = "done" /\ ~ops[i].dlErr /\ ops[i].exErr)
        => /\ ops[i].promise.state = "rejected"
           /\ ops[i].reason = "extract"
           /\ ops[i].promise.resolveCalls = 1
           /\ LastDownloadAtPath(i) =>
                  /\ dir[getTaskPath(ops[i].task)] = Absent
                  /\ zip[getTaskPath(ops[i].task)] = Absent

ExtractionFailureRollsBackWitness ==
    \E i \in 1..Len(ops) :
        /\ ops[i].download /\ ops[i].pc = "done" /\ ~ops[i].dlErr /\ ops[i].exErr
        /\ ops[i].promise.state = "rejected"
        /\ dir[getTaskPath(ops[i].task)] = Absent

\* the promise of an ensureTaskExists call keeps the outcome it settled with
PromiseSettlesOnce ==
    \A i \in 1..Len(ops) :
        ops[i].promise.state \in Settled =>
            /\ ops'[i].promise.state = ops[i].promise.state
            /\ ops'[i].reason = ops[i].reason

\* the outcome of a finished download-and-extract follows its two steps
OutcomeFollowsSteps ==
    \A i \in 1..Len(ops) :
        /\ (ops[i].download /\ ops[i].promise.state = "fulfilled")
               => (ops[i].pc = "done" /\ ~ops[i].dlErr /\ ~ops[i].exErr)
        /\ (ops[i].download /\ ops[i].pc = "done" /\ (ops[i].dlErr \/ ops[i].exErr))
               => ops[i].promise.state = "rejected"
        /\ (ops[i].download /\ ops[i].dlErr)
               => (ops[i].promise.state = "rejected" /\ ops[i].reason = "download")
        /\ (ops[i].download /\ ops[i].pc = "done") => ops[i].promise.state \in Settled

\* C11: the promise of ensureTaskExists for a missing bundle is fulfilled
\* only if the download and the extraction both succeeded and is rejected
\* when either failed, also when a failed download is followed by an
\* extraction reporting no error; once settled, later resolve and reject
\* calls do not change its outcome.
EnsureOutcome ==
    /\ []OutcomeFollowsSteps
    /\ [][PromiseSettlesOnce]_vars

\* a failed download followed by an extraction that reported no error
EnsureOutcomeWitness ==
    \E i \in 1..Len(ops) :
        /\ ops[i].download /\ ops[i].pc = "done" /\ ops[i].dlErr /\ ~ops[i].exErr
        /\ ops[i].promise.state = "rejected"
        /\ ops[i].promise.resolveCalls = 1

\* C12: an ensureTaskExists call that finds the bundle directory issues no
\* download and resolves at once; and after one successful ensure, no
\* further ensure of the same task issues a download.
IdempotentEnsure ==
    /\ \A j \in 1..Len(ops) :
           ~ops[j].download => (ops[j].pc = "done" /\ ops[j].promise = Resolved)
    /\ \A i \in 1..Len(ops) : \A j \in (i + 1)..Len(ops) :
           (/\ ops[i].task = ops[j].task
            /\ ops[i].promise.state = "fulfilled"
            /\ ops[i].pc = "done") => ~ops[j].download

(***************************************************************************)
(* Properties of ensureLatestExist                                         *)
(***************************************************************************)
CatalogIds == {catalog[k].id : k \in 1..Len(catalog)}

\* the catalog was processed: the list ensureTasksExist was called with
PassedOn == batches[latest.batch]

\* C13: ensureLatestExist passes to ensureTasksExist exactly one task
\* instance per task id of the catalog, taken from a catalog entry of that
\* id whose version string no entry of the id exceeds under the string
\* comparison, whatever the order of the entries; and ensureTasksExist
\* ensures exactly these instances.
LatestPerId ==
    latest.batch > 0 =>
        /\ \A id \in CatalogIds :
               Cardinality({k \in 1..Len(PassedOn) : PassedOn[k].id = id}) = 1
        /\ \A k \in 1..Len(PassedOn) :
               /\ \E c \in 1..Len(catalog) : PassedOn[k] = getTaskInstance(catalog[c])
               /\ \A c \in 1..Len(catalog) :
                      catalog[c].id = PassedOn[k].id =>
                          ~StringGreater(versionStringFromTaskDef(catalog[c]),
                                         PassedOn[k].version)
        /\ Cardinality(PromisesOf(latest.batch, ops)) = Len(PassedOn)
        /\ \A k \in 1..Len(PassedOn) :
               \E i \in PromisesOf(latest.batch, ops) : ops[i].task = PassedOn[k]

\* the catalog [A@10, A@9, B@9], nothing cached: A@9 ("9" > "10" as strings)
\* and B@9 are passed on, and the bundle of A@9 is downloaded
LatestPerIdWitness ==
    /\ Len(catalog) = 3
    /\ catalog[1] = [id |-> "A", name |-> "x", version |-> 10]
    /\ catalog[2] = [id |-> "A", name |-> "x", version |-> 9]
    /\ catalog[3].id = "B"
    /\ latest.pc = "done"
    /\ latest.promise.state = "fulfilled"
    /\ Len(PassedOn) = 2
    /\ \E i \in 1..Len(ops) :
           ops[i].download /\ ops[i].task = [id |-> "A", name |-> "x", version |-> V9]

\* C14: when the listing call reports an error, ensureLatestExist is
\* rejected with that error and nothing else happens: no catalog entry is
\* processed and no ensureTasksExist, ensureTaskExists or download call is
\* made, also when the callback carries a task list.
ListingErrorAborts ==
    latest.err =>
        /\ latest.promise.state = "rejected"
        /\ latest.reason = "listing"
        /\ latest.batch = 0
        /\ batches = <<>>
        /\ ops = <<>>

\* C15: the promise of ensureTasksExist is rejected exactly when one of its
\* ensureTaskExists promises is, with the first of them to be rejected, and
\* is fulfilled only when all of them are; the promise of ensureLatestExist
\* is fulfilled only when every ensure of the reduced list is fulfilled.
BatchOutcome ==
    /\ \A b \in 1..Len(all) :
           /\ all[b].state = "rejected" <=>
                  \E i \in PromisesOf(b, ops) : ops[i].promise.state = "rejected"
           /\ all[b].state = "rejected" =>
                  /\ all[b].first \in PromisesOf(b, ops)
                  /\ ops[all[b].first].promise.state = "rejected"
           /\ all[b].state = "fulfilled" =>
                  \A i \in PromisesOf(b, ops) : ops[i].promise.state = "fulfilled"
    /\ latest.promise.state = "fulfilled" =>
           /\ latest.batch > 0
           /\ all[latest.batch].state = "fulfilled"
           /\ \A i \in PromisesOf(latest.batch, ops) : ops[i].promise.state = "fulfilled"
           /\ \A k \in 1..Len(PassedOn) :
                  \E i \in PromisesOf(latest.batch, ops) : ops[i].task = PassedOn[k]

\* of two downloads of one list the second failed first and the first
\* failed later; the list's promise carries the second's rejection, and
\* ensureLatestExist is rejected with it
BatchOutcomeWitness ==
    /\ latest.pc = "done"
    /\ latest.promise.state = "rejected"
    /\ latest.reason = "download"
    /\ \E i \in PromisesOf(latest.batch, ops) :
           /\ i < all[latest.batch].first
           /\ ops[i].promise.state = "rejected"

(***************************************************************************)
(* Properties of the workspace variables                                   *)
(***************************************************************************)
\* collId + ':' + defId + ':' + url1 + ... + ':' + urlN, piece by piece
ExpectedHashInput ==
    [i \in 1..(3 + 2 * Len(msg.endpoints)) |->
        IF i = 1 THEN JsString(msg.collectionId)[1]
        ELSE IF i = 3 THEN JsString(msg.definitionId)[1]
        ELSE IF i % 2 = 0 THEN ":"
        ELSE msg.endpoints[(i - 3) \div 2]]

\* C16: when setVariables returns, buildDirectory is the join of the work
\* folder, system and the hash of collectionId ':' definitionId followed by
\* ':' url for every endpoint in the listed order, repeated URLs included;
\* it depends on nothing else in the message or in the variables before
\* the call; stagingDirectory is buildDirectory joined with 'staging'.
BuildDirectoryIsHash ==
    (msg.messageType = "job" /\ phase = "handled" /\ msg.system # Undefined) =>
        /\ variables.workingDirectory = WorkingFolder
        /\ variables.buildDirectory =
               WorkingFolder \o msg.system \o Sha256(ExpectedHashInput)
        /\ variables.stagingDirectory = variables.buildDirectory \o <<"staging">>

\* a job listing the same endpoint URL twice, whose variables already held
\* workspace paths
BuildDirectoryIsHashWitness ==
    /\ msg.messageType = "job"
    /\ phase = "handled"
    /\ msg.endpoints = <<"u1", "u1">>
    /\ msg.preset
    /\ variables.buildDirectory =
           <<"work", "build", "sha256(", "c1", ":", "d1", ":", "u1", ":", "u1", ")">>

\* C17: when system, collectionId or definitionId is missing from the job's
\* variables, a configuration error is surfaced, no buildDirectory is
\* derived and the engine is not started.
MissingIdentityIsError ==
    (/\ msg.messageType = "job"
     /\ phase = "handled"
     /\ Undefined \in {msg.system, msg.collectionId, msg.definitionId}) =>
        /\ ~EngineStarted
        /\ variables.buildDirectory = InitialVariables(msg).buildDirectory
        /\ \E i \in 1..Len(events) : events[i].op \in {"error", "uncaughtException"}

(***************************************************************************)
(* Properties of the order of run()'s steps                                *)
(***************************************************************************)
IsJobRun == msg.messageType = "job" /\ phase = "handled"

\* position of the first finalize step in the log
FirstFinalize ==
    IF Has("drain") /\ Has("finishJob")
    THEN (IF First("drain") < First("finishJob") THEN First("drain") ELSE First("finishJob"))
    ELSE IF Has("drain") THEN First("drain") ELSE First("finishJob")

\* C18: in a run on a job message the workspace variables are written
\* before jobRunner.run is called; neither finishJob nor drain is called
\* before jobRunner.run; and the finalize step is started before the
\* completion signal is given, which in turn precedes the process exit it
\* triggers (an exit on SIGINT waits for nothing).
OrderedRun ==
    IsJobRun =>
        /\ EngineStarted =>
              /\ Has("setVariables")
              /\ First("setVariables") < First("jobRunner.run")
              /\ Undefined \notin {variables.workingDirectory,
                                   variables.buildDirectory,
                                   variables.stagingDirectory}
        /\ \A op \in {"finishJob", "drain"} :
              Has(op) => EngineStarted /\ First("jobRunner.run") < First(op)
        /\ Has("resolve") =>
              /\ Has("drain") \/ Has("finishJob")
              /\ FirstFinalize < First("resolve")
        /\ (deferred.state \in Settled) = Has("resolve")
        /\ (exited /\ ~Interrupted) => Has("resolve")

\* a job that was abandoned, whose engine called back late, and whose
\* worker has exited
OrderedRunWitness ==
    /\ IsJobRun
    /\ exited
    /\ ~Interrupted
    /\ Has("drain")
    /\ Has("callback")
    /\ First("drain") < First("callback")

\* a step in which the channel emits JobAbandoned
AbandonmentObserved ==
    abandons' = abandons + 1 =>
        /\ finishingJob'
        /\ \/ finishingJob /\ UNCHANGED <<drain, finishJob>>
           \/ ~finishingJob /\ drain = NoPromise /\ drain' = PendingPromise

\* the handler is on the channel when the engine is started, and no
\* JobAbandoned was emitted to a channel without it
HandlerBeforeEngine ==
    /\ EngineStarted => HandlerRegistered /\ First("on") < First("jobRunner.run")
    /\ ChannelCreated => HandlerRegistered
    /\ ~Has("unobserved")

\* C19: the JobAbandoned handler is registered before the engine is
\* started; every JobAbandoned emitted once the channel exists is observed,
\* and either starts the drain or finds finalize already started.
AbandonmentNeverMissed == []HandlerBeforeEngine /\ [][AbandonmentObserved]_vars

\* one abandonment started the drain and a later one found it started
AbandonmentNeverMissedWitness ==
    /\ abandons = 2
    /\ Count("JobAbandoned") = 2
    /\ Count("drain") = 1

(***************************************************************************)
(* Properties of the bundle on disk                                        *)
(***************************************************************************)
\* the bundle directory of the task holds a downloaded and extracted bundle
OnDisk(task) == dir[getTaskPath(task)].state = "complete"

\* C20: whenever an ensureTaskExists or ensureTasksExist promise is
\* fulfilled, or hasTask(task) is true, the bundle directory of the task
\* holds a completely downloaded and extracted bundle, whatever other ensure
\* calls for the same bundle are in flight or have failed.
FulfilledMeansOnDisk ==
    /\ \A i \in 1..Len(ops) :
          ops[i].promise.state = "fulfilled" => OnDisk(ops[i].task)
    /\ \A b \in 1..Len(all) :
          all[b].state = "fulfilled" =>
              \A k \in 1..Len(batches[b]) : OnDisk(batches[b][k])
    /\ \A task \in TaskInstances : hasTask(dir, task) => OnDisk(task)

====
